---- MODULE Spec2Model ----
(***************************************************************************)
(* Model of the ANCS client of src/ancs_service.py: the pending-request    *)
(* table of ANCSMirror, its two notification callbacks and the request     *)
(* task spawned for every Added event.                                     *)
(*                                                                         *)
(* The asyncio event loop is single threaded: a callback runs to           *)
(* completion, a task runs from one await to the next.  Each action below  *)
(* is one such uninterrupted run.  Request tasks with the same uid and the *)
(* same position are indistinguishable (their only locals are uid and the  *)
(* command built from it), so the tasks are kept as counts per uid.        *)
(*                                                                         *)
(* The packets are the peer's: the callbacks are modelled for every packet *)
(* of the input sets at every moment the client is connected, a            *)
(* Data-Source packet before the request it would answer included.  The    *)
(* model ends with the event loop: the cancellation of unfinished tasks    *)
(* when asyncio.run returns is not part of it.                             *)
(***************************************************************************)
EXTENDS Integers, Sequences, FiniteSets, TLC

\* ---------------------------------------------------------------- bounds
MaxAdded == 2      \* Added events handled in one run
MaxDS == 2         \* Data-Source packets of at least 4 bytes handled in one run
MaxBuf == 6        \* bytes of a TLV buffer drawn byte by byte
MaxRecs == 3       \* records of a TLV buffer drawn record by record

\* ------------------------------------------------------------- constants
EVENT_ADDED == 0
EVENT_MODIFIED == 1
EVENT_REMOVED == 2

CP_GET_NOTIFICATION_ATTRIBUTES == 0

NA_APP_IDENTIFIER == 0
NA_TITLE == 1
NA_MESSAGE == 3

MAX_TITLE_LEN == 64
MAX_MESSAGE_LEN == 256

\* ------------------------------------------------------- byte arithmetic
\* int.from_bytes(b, byteorder="little") for a byte sequence b
RECURSIVE FromBytesLE(_)
FromBytesLE(b) ==
    IF Len(b) = 0 THEN 0 ELSE b[1] + 256 * FromBytesLE(Tail(b))

\* n.to_bytes(k, byteorder="little")
RECURSIVE ToBytesLE(_, _)
ToBytesLE(n, k) ==
    IF k = 0 THEN <<>> ELSE <<n % 256>> \o ToBytesLE(n \div 256, k - 1)

\* data[a:b] of Python (0-based, end exclusive, clipped to the buffer)
Slice(data, a, b) ==
    SubSeq(data, a + 1, IF b > Len(data) THEN Len(data) ELSE b)

\* ------------------------------------------------------------ the inputs
\* the UID fields that occur on the wire in the model: 7 and 256
UidBytes == { <<7, 0, 0, 0>>, <<0, 1, 0, 0>> }
UIDs == { FromBytesLE(b) : b \in UidBytes }

\* event kinds on the wire: Added, Modified, Removed and an unknown code
EventIds == { 0, 1, 2, 9 }

\* well-formed Notification-Source packets, and a Removed packet of an
\* unknown category with trailing bytes
NSFull ==
    { <<e, 1, 4, 1>> \o ub : e \in EventIds, ub \in UidBytes }
        \cup { <<2, 0, 200, 3, 0, 1, 0, 0, 1, 2>> }

\* Notification-Source packets shorter than 8 bytes
NSShort == { <<>>, <<0, 1, 4, 1, 7, 0, 0>> }

NSPackets == NSFull \cup NSShort

\* TLV payloads of Data-Source packets: empty; AppIdentifier "A", Title
\* " H" and a truncated Message; an unknown kind
DSPayloads ==
    { <<>>,
      <<0, 1, 0, 65, 1, 2, 0, 32, 72, 3, 5, 0, 66>>,
      <<9, 1, 0, 90>> }

DSFull == { ub \o pl : ub \in UidBytes, pl \in DSPayloads }

\* Data-Source packets shorter than 4 bytes
DSShort == { <<>>, <<7, 0, 0>> }

DSPackets == DSFull \cup DSShort

\* -------------------------------------------------------------- the state
VARIABLES
    client,       \* "none": self.client is None; "connected"; "disconnected"
    pending,      \* self.pending: uid -> PendingRequest
    tasks,        \* request tasks per uid: spawned (not yet run), writing (awaiting the write)
    lastSummary,  \* the summary printed by the last Data-Source callback
    nsAdded,      \* history: Added events handled, per uid
    cpWrites,     \* history: write_gatt_char calls made, per uid
    emitted,      \* history: summaries printed, per uid
    owner,        \* history: the task that recorded the entry of uid last is still awaiting its write, and the entry has stayed since
    acked,        \* history: the write of the task that recorded the entry of uid last was acknowledged, and the entry has stayed since
    phase,        \* history: how far the callbacks for uid follow the order Added, Removed, Data-Source
    last,         \* history: the step taken last
    calc          \* one function of the program applied to one input: the input, the position, the result

vars == <<client, pending, tasks, lastSummary, nsAdded, cpWrites, emitted, owner, acked, phase, last, calc>>

\* PendingRequest(uid=uid, expecting="notification_attributes")
PendingRequest(uid) == [uid |-> uid, expecting |-> "notification_attributes"]

\* self.pending[uid] = r
Put(p, uid, r) == [k \in (DOMAIN p) \cup {uid} |-> IF k = uid THEN r ELSE p[k]]

\* self.pending.pop(uid, None)
Pop(p, uid) == [k \in (DOMAIN p) \ {uid} |-> p[k]]

EmptyTable == [k \in {} |-> PendingRequest(k)]

NoSummary == [app_id |-> <<>>, title |-> <<>>, message |-> <<>>]

\* the sum of a history counter over all uids
RECURSIVE SumOver(_, _)
SumOver(f, S) ==
    IF S = {} THEN 0
    ELSE LET u == CHOOSE x \in S : TRUE IN f[u] + SumOver(f, S \ {u})

Total(f) == SumOver(f, DOMAIN f)

\* the order Added, Removed, Data-Source of the callbacks for one uid
PhaseNext(ph, ev) ==
    CASE ph = "none" /\ ev = "A" -> "A"
      [] ph = "A" /\ ev = "R" -> "AR"
      [] ph = "AR" /\ ev = "D" -> "ARD"
      [] OTHER -> "off"

\* ----------------------------------------------------------- the history
\* The history variables record what was delivered, read off the packet
\* itself and not off the branch the handler took.
NoStep(op) == [op |-> op, short |-> FALSE, event |-> -1, uid |-> -1, had |-> FALSE]

\* a Notification-Source packet: whether it has fewer than 8 bytes, its kind
\* byte, its UID field
NSStep(data) ==
    [op |-> "ns", short |-> Len(data) < 8,
     event |-> IF Len(data) >= 8 THEN data[1] ELSE -1,
     uid |-> IF Len(data) >= 8 THEN FromBytesLE(SubSeq(data, 5, 8)) ELSE -1,
     had |-> Len(data) >= 8 /\ FromBytesLE(SubSeq(data, 5, 8)) \in DOMAIN pending]

\* a Data-Source packet: whether it has fewer than 4 bytes, its UID field
DSStep(data) ==
    [op |-> "ds", short |-> Len(data) < 4, event |-> -1,
     uid |-> IF Len(data) >= 4 THEN FromBytesLE(SubSeq(data, 1, 4)) ELSE -1,
     had |-> Len(data) >= 4 /\ FromBytesLE(SubSeq(data, 1, 4)) \in DOMAIN pending]

\* a step of a request task for uid
TaskStep(op, uid) ==
    [op |-> op, short |-> FALSE, event |-> -1, uid |-> uid, had |-> uid \in DOMAIN pending]

\* which of Added, Removed, Data-Source the step delivered for u, if any
Delivered(st, u) ==
    IF st.uid # u THEN "-"
    ELSE IF st.op = "ds" THEN "D"
    ELSE IF st.op = "ns" /\ st.event = 0 THEN "A"
    ELSE IF st.op = "ns" /\ st.event = 2 THEN "R"
    ELSE "-"

\* the history after a callback that delivered the packet described by st
Observed(st) ==
    /\ last' = st
    /\ nsAdded' = [u \in UIDs |-> IF Delivered(st, u) = "A" THEN nsAdded[u] + 1 ELSE nsAdded[u]]
    /\ phase' = [u \in UIDs |->
                    IF Delivered(st, u) = "-" THEN phase[u]
                    ELSE PhaseNext(phase[u], Delivered(st, u))]
    /\ owner' = [u \in UIDs |-> owner[u] /\ u \in DOMAIN pending']
    /\ acked' = [u \in UIDs |-> acked[u] /\ u \in DOMAIN pending']

\* request tasks created so far
TasksCreated == Total(cpWrites) + Total([u \in UIDs |-> tasks[u].spawned])

TypeOK ==
    /\ client \in {"none", "connected", "disconnected"}
    /\ DOMAIN pending \subseteq UIDs
    /\ tasks \in [UIDs -> [spawned : 0..(MaxAdded + 1), writing : 0..(MaxAdded + 1)]]
    /\ nsAdded \in [UIDs -> Nat]
    /\ cpWrites \in [UIDs -> Nat]
    /\ emitted \in [UIDs -> Nat]
    /\ owner \in [UIDs -> BOOLEAN]
    /\ acked \in [UIDs -> BOOLEAN]
    /\ \A u \in UIDs : (owner[u] \/ acked[u]) => u \in DOMAIN pending
    /\ \A u \in UIDs : owner[u] => tasks[u].writing > 0 /\ ~acked[u]
    /\ phase \in [UIDs -> {"none", "A", "AR", "ARD", "off"}]

\* no function is being applied on its own
Idle == [fn |-> "none", arg |-> <<>>, out |-> <<>>, pc |-> "done"]

\* ANCSMirror.__init__: no client, an empty table, nothing running
Constructed ==
    /\ client = "none"
    /\ pending = EmptyTable
    /\ tasks = [u \in UIDs |-> [spawned |-> 0, writing |-> 0]]
    /\ lastSummary = NoSummary
    /\ nsAdded = [u \in UIDs |-> 0]
    /\ cpWrites = [u \in UIDs |-> 0]
    /\ emitted = [u \in UIDs |-> 0]
    /\ owner = [u \in UIDs |-> FALSE]
    /\ acked = [u \in UIDs |-> FALSE]
    /\ phase = [u \in UIDs |-> "none"]
    /\ last = NoStep("init")

Init ==
    /\ calc = Idle
    /\ Constructed

\* connect(): the client is created and connected, both streams subscribed
Connect ==
    /\ client = "none"
    /\ client' = "connected"
    /\ last' = NoStep("connect")
    /\ UNCHANGED <<pending, tasks, lastSummary, nsAdded, cpWrites, emitted, owner, acked, phase, calc>>

\* run(), the finally block: stop_notify on both streams, then disconnect;
\* self.pending is not touched
Disconnect ==
    /\ client = "connected"
    /\ client' = "disconnected"
    /\ last' = NoStep("disconnect")
    /\ UNCHANGED <<pending, tasks, lastSummary, nsAdded, cpWrites, emitted, owner, acked, phase, calc>>

\* a length check that lets a 7-byte packet through
NSTooShort_OffByOne(data) == Len(data) < 7

\* if len(data) < 8: return
NSTooShort(data) == Len(data) < 8

\* a request on Modified events as well
SpawnsRequest_AlsoModified(event_id) == event_id \in {EVENT_ADDED, EVENT_MODIFIED}

\* if event_id == EVENT_ADDED: a request task is created
SpawnsRequest(event_id) == event_id = EVENT_ADDED

\* a plain else in place of the elif
ClearsPending_AnyOther(event_id) == event_id # EVENT_ADDED

\* elif event_id == EVENT_REMOVED
ClearsPending(event_id) == event_id = EVENT_REMOVED

\* self.pending.clear() in place of the pop
OnRemoved_ClearAll(p, uid) == EmptyTable

\* self.pending.pop(uid, None) of the Removed branch
OnRemoved(p, uid) == Pop(p, uid)

\* the uid read one byte early, from data[3:7]
NSUid_OneByteEarly(data) == FromBytesLE(Slice(data, 3, 7))

\* uid = int.from_bytes(data[4:8], byteorder="little")
NSUid(data) == FromBytesLE(Slice(data, 4, 8))

\* _on_notification_source(_handle, data)
OnNotificationSource(data) ==
    /\ client = "connected"
    /\ IF NSTooShort(data)
       THEN UNCHANGED <<pending, tasks>>
       ELSE LET event_id == data[1]
                uid == NSUid(data)
            IN  IF SpawnsRequest(event_id)
                THEN \* asyncio.create_task(self._request_notification_attributes(uid))
                     /\ TasksCreated < MaxAdded
                     /\ tasks' = [tasks EXCEPT ![uid].spawned = @ + 1]
                     /\ UNCHANGED pending
                ELSE IF ClearsPending(event_id)
                THEN /\ pending' = OnRemoved(pending, uid)
                     /\ UNCHANGED tasks
                ELSE UNCHANGED <<pending, tasks>>
    /\ Observed(NSStep(data))
    /\ UNCHANGED <<client, lastSummary, cpWrites, emitted, calc>>

\* i + length >= len(data) in place of >: a record that ends with the buffer
\* is dropped
RECURSIVE ParseTlvFrom_StrictEnd(_, _, _)
ParseTlvFrom_StrictEnd(data, i, out) ==
    IF i + 3 <= Len(data)
    THEN LET attr_id == data[i + 1]
             length == FromBytesLE(Slice(data, i + 1, i + 3))
             j == i + 3
         IN  IF j + length >= Len(data)
             THEN out
             ELSE ParseTlvFrom_StrictEnd(data, j + length,
                     [k \in (DOMAIN out) \cup {attr_id} |->
                        IF k = attr_id THEN Slice(data, j, j + length) ELSE out[k]])
    ELSE out

\* out = {attr_id: value} in place of out[attr_id] = value: only the record
\* parsed last is kept
RECURSIVE ParseTlvFrom_KeepsLast(_, _, _)
ParseTlvFrom_KeepsLast(data, i, out) ==
    IF i + 3 <= Len(data)
    THEN LET attr_id == data[i + 1]
             length == FromBytesLE(Slice(data, i + 1, i + 3))
             j == i + 3
         IN  IF j + length > Len(data)
             THEN out
             ELSE ParseTlvFrom_KeepsLast(data, j + length,
                                         [k \in {attr_id} |-> Slice(data, j, j + length)])
    ELSE out

\* _parse_tlv_attributes(data): the loop from read index i with the mapping
\* out built so far (i is 0-based as in the source)
RECURSIVE ParseTlvFrom(_, _, _)
ParseTlvFrom(data, i, out) ==
    IF i + 3 <= Len(data)
    THEN LET attr_id == data[i + 1]
             length == FromBytesLE(Slice(data, i + 1, i + 3))
             j == i + 3
         IN  IF j + length > Len(data)
             THEN out
             ELSE ParseTlvFrom(data, j + length,
                               [k \in (DOMAIN out) \cup {attr_id} |->
                                   IF k = attr_id THEN Slice(data, j, j + length)
                                   ELSE out[k]])
    ELSE out

parse_tlv_attributes(data) == ParseTlvFrom(data, 0, [k \in {} |-> <<>>])

\* the loop without its i += 3: the index moves by the value length only
TlvIter_NoHeaderSkip(data, st) ==
    IF st.i + 3 <= Len(data)
    THEN LET attr_id == data[st.i + 1]
             length == FromBytesLE(Slice(data, st.i + 1, st.i + 3))
             j == st.i
         IN  IF j + length > Len(data)
             THEN [st EXCEPT !.i = j, !.n = @ + 1, !.done = TRUE]
             ELSE [i |-> j + length,
                   attrs |-> [k \in (DOMAIN st.attrs) \cup {attr_id} |->
                                IF k = attr_id THEN Slice(data, j, j + length)
                                ELSE st.attrs[k]],
                   n |-> st.n + 1,
                   done |-> FALSE]
    ELSE [st EXCEPT !.done = TRUE]

\* one test of the loop condition of _parse_tlv_attributes and, when it
\* holds, one run of the loop body: st.i is the read index, st.attrs the
\* mapping, st.n the bodies run so far, st.done whether the loop was left
TlvIter(data, st) ==
    IF st.i + 3 <= Len(data)
    THEN LET attr_id == data[st.i + 1]
             length == FromBytesLE(Slice(data, st.i + 1, st.i + 3))
             j == st.i + 3
         IN  IF j + length > Len(data)
             THEN [st EXCEPT !.i = j, !.n = @ + 1, !.done = TRUE]
             ELSE [i |-> j + length,
                   attrs |-> [k \in (DOMAIN st.attrs) \cup {attr_id} |->
                                IF k = attr_id THEN Slice(data, j, j + length)
                                ELSE st.attrs[k]],
                   n |-> st.n + 1,
                   done |-> FALSE]
    ELSE [st EXCEPT !.done = TRUE]

\* attrs.get(kind, b"")
AttrGet(attrs, kind) == IF kind \in DOMAIN attrs THEN attrs[kind] ELSE <<>>

\* bytes.decode(errors="ignore"): a byte below 128 is the character of that
\* code; a byte that starts no valid UTF-8 sequence is dropped.  The
\* payloads of the model hold ASCII bytes and the byte 255 only.
Decode(bs) == SelectSeq(bs, LAMBDA b : b < 128)

StripChars == { 0, 10, 13, 32 }

\* str.strip("\x00\n\r ")
RECURSIVE StripLeft(_)
StripLeft(s) ==
    IF Len(s) > 0 /\ s[1] \in StripChars THEN StripLeft(Tail(s)) ELSE s

RECURSIVE StripRight(_)
StripRight(s) ==
    IF Len(s) > 0 /\ s[Len(s)] \in StripChars
    THEN StripRight(SubSeq(s, 1, Len(s) - 1))
    ELSE s

Strip(s) == StripRight(StripLeft(s))

\* the title taken from the Subtitle attribute
Summary_TitleFromSubtitle(payload) ==
    LET attrs == parse_tlv_attributes(payload)
    IN  [app_id |-> Strip(Decode(AttrGet(attrs, NA_APP_IDENTIFIER))),
         title |-> Strip(Decode(AttrGet(attrs, 2))),
         message |-> Strip(Decode(AttrGet(attrs, NA_MESSAGE)))]

\* the three fields _on_data_source prints for a TLV payload
Summary(payload) ==
    LET attrs == parse_tlv_attributes(payload)
    IN  [app_id |-> Strip(Decode(AttrGet(attrs, NA_APP_IDENTIFIER))),
         title |-> Strip(Decode(AttrGet(attrs, NA_TITLE))),
         message |-> Strip(Decode(AttrGet(attrs, NA_MESSAGE)))]

\* if len(data) < 4: return
DSTooShort(data) == Len(data) < 4

\* the pop at the end of _on_data_source left out
DataSourceClear_Missing(p, uid) == p

\* self.pending.pop(uid, None) at the end of _on_data_source
DataSourceClear(p, uid) == Pop(p, uid)

\* the uid read from the first two bytes only
DSUid_TwoBytes(data) == FromBytesLE(Slice(data, 0, 2))

\* uid = int.from_bytes(data[0:4], byteorder="little")
DSUid(data) == FromBytesLE(Slice(data, 0, 4))

\* _on_data_source(_handle, data)
OnDataSource(data) ==
    /\ client = "connected"
    /\ IF DSTooShort(data)
       THEN UNCHANGED <<pending, lastSummary, emitted>>
       ELSE LET uid == DSUid(data)
                payload == Slice(data, 4, Len(data))
            IN  /\ Total(emitted) < MaxDS
                /\ lastSummary' = Summary(payload)
                /\ emitted' = [emitted EXCEPT ![uid] = @ + 1]
                /\ pending' = DataSourceClear(pending, uid)
    /\ Observed(DSStep(data))
    /\ UNCHANGED <<client, tasks, cpWrites, calc>>

\* the uid written most significant byte first
RECURSIVE Reverse(_)
Reverse(q) == IF Len(q) = 0 THEN <<>> ELSE Reverse(Tail(q)) \o <<q[1]>>

Command_BigEndianUid(uid) ==
    <<CP_GET_NOTIFICATION_ATTRIBUTES>> \o Reverse(ToBytesLE(uid, 4))
        \o <<NA_APP_IDENTIFIER>>
        \o <<NA_TITLE>> \o ToBytesLE(MAX_TITLE_LEN, 2)
        \o <<NA_MESSAGE>> \o ToBytesLE(MAX_MESSAGE_LEN, 2)

\* the control-point command built by _request_notification_attributes(uid)
Command(uid) ==
    <<CP_GET_NOTIFICATION_ATTRIBUTES>> \o ToBytesLE(uid, 4)
        \o <<NA_APP_IDENTIFIER>>
        \o <<NA_TITLE>> \o ToBytesLE(MAX_TITLE_LEN, 2)
        \o <<NA_MESSAGE>> \o ToBytesLE(MAX_MESSAGE_LEN, 2)

\* the pending entry not recorded before the write
RecordPending_Missing(p, uid) == p

\* self.pending[uid] = PendingRequest(uid=uid, expecting="notification_attributes")
RecordPending(p, uid) == Put(p, uid, PendingRequest(uid))

\* the except branch without its pop
RollBack_Missing(p, uid) == p

\* self.pending.clear() in the except branch
RollBack_ClearAll(p, uid) == EmptyTable

\* self.pending.pop(uid, None) of the except branch
RollBack(p, uid) == Pop(p, uid)

\* _request_notification_attributes(uid) from its start to the await: return
\* when there is no client, else build the command, record the pending entry
\* and hand the command to write_gatt_char
TaskRecord(uid) ==
    /\ tasks[uid].spawned > 0
    /\ IF client = "none"
       THEN /\ tasks' = [tasks EXCEPT ![uid].spawned = @ - 1]
            /\ last' = TaskStep("task_return", uid)
            /\ UNCHANGED <<pending, cpWrites, owner, acked>>
       ELSE /\ tasks' = [tasks EXCEPT ![uid].spawned = @ - 1, ![uid].writing = @ + 1]
            /\ pending' = RecordPending(pending, uid)
            /\ cpWrites' = [cpWrites EXCEPT ![uid] = @ + 1]
            /\ last' = TaskStep("task_record", uid)
            /\ owner' = [u \in UIDs |-> IF u = uid THEN uid \in DOMAIN pending'
                                        ELSE owner[u] /\ u \in DOMAIN pending']
            /\ acked' = [u \in UIDs |-> u # uid /\ acked[u] /\ u \in DOMAIN pending']
    /\ UNCHANGED <<client, lastSummary, nsAdded, emitted, phase, calc>>

\* the task whose write ends is the one that recorded the entry of uid last
\* (own), or another of the tasks awaiting their write for uid
EndingTask(uid, own) ==
    /\ tasks[uid].writing > 0
    /\ IF own THEN owner[uid] ELSE tasks[uid].writing > (IF owner[uid] THEN 1 ELSE 0)

\* the entry recorded after the awaited write in place of before it
WriteOk_RecordsAfter(uid, own) ==
    /\ EndingTask(uid, own)
    /\ client = "connected"
    /\ tasks' = [tasks EXCEPT ![uid].writing = @ - 1]
    /\ pending' = Put(pending, uid, PendingRequest(uid))
    /\ owner' = [owner EXCEPT ![uid] = @ /\ ~own]
    /\ acked' = [acked EXCEPT ![uid] = @ \/ own]
    /\ last' = TaskStep("write_ok", uid)
    /\ UNCHANGED <<client, lastSummary, nsAdded, cpWrites, emitted, phase, calc>>

\* the awaited write returns: the acknowledgement arrived, the task ends
WriteOk(uid, own) ==
    /\ EndingTask(uid, own)
    /\ client = "connected"
    /\ tasks' = [tasks EXCEPT ![uid].writing = @ - 1]
    /\ owner' = [owner EXCEPT ![uid] = @ /\ ~own]
    /\ acked' = [acked EXCEPT ![uid] = @ \/ own]
    /\ last' = TaskStep("write_ok", uid)
    /\ UNCHANGED <<client, pending, lastSummary, nsAdded, cpWrites, emitted, phase, calc>>

\* the awaited write raises (at any time, and always once the client is
\* disconnected): the except branch pops the entry of uid, the task ends
WriteFail(uid, own) ==
    /\ EndingTask(uid, own)
    /\ tasks' = [tasks EXCEPT ![uid].writing = @ - 1]
    /\ pending' = RollBack(pending, uid)
    /\ owner' = [u \in UIDs |-> owner[u] /\ u \in DOMAIN pending']
    /\ acked' = [u \in UIDs |-> acked[u] /\ u \in DOMAIN pending']
    /\ last' = TaskStep("write_fail", uid)
    /\ UNCHANGED <<client, lastSummary, nsAdded, cpWrites, emitted, phase, calc>>

Next ==
    \/ Connect
    \/ Disconnect
    \/ \E data \in NSPackets : OnNotificationSource(data)
    \/ \E data \in DSPackets : OnDataSource(data)
    \/ \E uid \in UIDs : TaskRecord(uid)
    \/ \E uid \in UIDs, own \in BOOLEAN : WriteOk(uid, own)
    \/ \E uid \in UIDs, own \in BOOLEAN : WriteFail(uid, own)

Spec == Init /\ [][Next]_vars

\* the event loop runs every task that is ready: a spawned request task
\* reaches its write
LiveSpec == Spec /\ \A uid \in UIDs : WF_vars(TaskRecord(uid))

\* ------------------------------------------- the functions on their own
\* The encoder, the decoders and the parser applied to inputs drawn from
\* bounded sets; the engine stays as constructed.
EngineUnchanged ==
    UNCHANGED <<client, pending, tasks, lastSummary, nsAdded, cpWrites, emitted,
                owner, acked, phase, last>>

Input(fn, arg) == [fn |-> fn, arg |-> arg, out |-> <<>>, pc |-> "in"]

\* CATEGORIES
CATEGORIES ==
    <<"Other", "IncomingCall", "MissedCall", "Voicemail", "Social", "Schedule",
      "Email", "News", "Health", "Business", "Location", "Entertainment">>

\* CATEGORIES.get(category_id, f"Unknown({category_id})"): the name, or
\* Unknown with the code
CategoryOf(category_id) ==
    IF category_id + 1 \in DOMAIN CATEGORIES
    THEN <<CATEGORIES[category_id + 1], -1>>
    ELSE <<"Unknown", category_id>>

\* {0: "Added", 1: "Modified", 2: "Removed"}.get(event_id, f"Unknown({event_id})")
EventNameOf(event_id) ==
    CASE event_id = 0 -> <<"Added", -1>>
      [] event_id = 1 -> <<"Modified", -1>>
      [] event_id = 2 -> <<"Removed", -1>>
      [] OTHER -> <<"Unknown", event_id>>

\* what _on_notification_source decodes and prints for a packet
NSDecode(data) ==
    IF NSTooShort(data)
    THEN [ok |-> FALSE]
    ELSE [ok |-> TRUE,
          event_name |-> EventNameOf(data[1]),
          event_flags |-> data[2],
          category |-> CategoryOf(data[3]),
          category_count |-> data[4],
          uid |-> NSUid(data)]

\* UID fields below 2^31 (the integers of the checker end there)
WideUidBytes ==
    { <<b1, b2, b3, b4>> : b1 \in {0, 1, 42, 255}, b2 \in {0, 1, 255},
                           b3 \in {0, 2, 255}, b4 \in {0, 3, 127} }

CmdInputs ==
    { Input("cmd", [u |-> b[1] + 256 * b[2] + 65536 * b[3] + 16777216 * b[4], le |-> b]) :
        b \in WideUidBytes }

\* Notification-Source packets: known and unknown kinds and categories, four
\* UID fields, with and without trailing bytes, and short packets
NSWide ==
    { <<e, f, c, 1>> \o ub \o tl :
        e \in {0, 1, 2, 9}, f \in {1, 128}, c \in {4, 11, 12, 200},
        ub \in { <<42, 0, 0, 0>>, <<0, 1, 0, 0>>, <<255, 255, 255, 127>>, <<4, 3, 2, 1>> },
        tl \in { <<>>, <<255>>, <<0, 9>> } }

NsInputs ==
    { Input("ns", d) : d \in NSWide }
        \cup { Input("ns", SubSeq(<<0, 1, 4, 1, 42, 0, 0, 0>>, 1, n)) : n \in 0..7 }

\* TLV buffers byte by byte: kinds 0, 1, 3 and 65, lengths 0, 1, 3 and
\* overrunning ones
TlvBytes == {0, 1, 3, 65}

BuffersOf(n) == [1..n -> TlvBytes]

TlvHello == <<1, 5, 0, 72, 101, 108, 108, 111, 3, 3, 0, 72, 105, 33>>

TlvInputs ==
    { Input("tlv", b) : b \in UNION { BuffersOf(n) : n \in 0..MaxBuf } }
        \cup { Input("tlv", TlvHello), Input("tlv", SubSeq(TlvHello, 1, 13)) }

\* one TLV record as the peer sends it: kind, length (2 bytes little-endian),
\* value
RECURSIVE EncodeTlv(_)
EncodeTlv(recs) ==
    IF Len(recs) = 0 THEN <<>>
    ELSE <<recs[1][1], Len(recs[1][2]) % 256, Len(recs[1][2]) \div 256>>
            \o recs[1][2] \o EncodeTlv(Tail(recs))

\* TLV buffers record by record: the kinds of the summary, Subtitle and an
\* unknown kind; empty, padded and non-ASCII values; whole or cut short by
\* one byte
RecKinds == {0, 1, 2, 3, 9}
RecValues == { <<>>, <<32, 72, 0>>, <<255, 66>> }
Records == { <<k, v>> : k \in RecKinds, v \in RecValues }

RecsInputs ==
    { Input("recs", [recs |-> r, cut |-> c]) :
        r \in UNION { [1..n -> Records] : n \in 0..MaxRecs }, c \in {0, 1} }

\* the payload of a record list, cut bytes dropped from its end
PayloadOf(arg) ==
    LET full == EncodeTlv(arg.recs)
    IN  SubSeq(full, 1, IF Len(full) >= arg.cut THEN Len(full) - arg.cut ELSE 0)

\* _parse_tlv_attributes is entered: out = {}, i = 0
ParseStart ==
    /\ calc.fn = "tlv" /\ calc.pc = "in"
    /\ calc' = [calc EXCEPT !.out = [i |-> 0, attrs |-> [k \in {} |-> <<>>],
                                      n |-> 0, done |-> FALSE],
                             !.pc = "loop"]
    /\ EngineUnchanged

\* the loop of _parse_tlv_attributes, one iteration at a time
ParseIter ==
    /\ calc.fn = "tlv" /\ calc.pc = "loop"
    /\ LET st == TlvIter(calc.arg, calc.out)
       IN  calc' = [calc EXCEPT !.out = st, !.pc = IF st.done THEN "done" ELSE "loop"]
    /\ EngineUnchanged

\* a payload is parsed and summarised as _on_data_source does
Summarise ==
    /\ calc.fn = "recs" /\ calc.pc = "in"
    /\ calc' = [calc EXCEPT !.out = [attrs |-> parse_tlv_attributes(PayloadOf(calc.arg)),
                                      summary |-> Summary(PayloadOf(calc.arg))],
                             !.pc = "done"]
    /\ EngineUnchanged

\* an Added packet and a Data-Source packet whose UID fields are equal or
\* differ in one byte or in all
CorrUidBytes ==
    { <<7, 0, 0, 0>>, <<8, 0, 0, 0>>, <<7, 1, 0, 0>>, <<7, 0, 1, 0>>,
      <<7, 0, 0, 127>>, <<255, 255, 255, 127>> }

CorrInputs ==
    { Input("corr", [ns |-> <<EVENT_ADDED, 1, 4, 1>> \o b \o nt, ds |-> d \o dt]) :
        b \in CorrUidBytes, d \in CorrUidBytes,
        nt \in { <<>>, <<9>> }, dt \in { <<>>, <<1, 0, 0>> } }

\* an Added packet is handled, its request task records the entry and builds
\* the command, then a Data-Source packet is handled
Correlate ==
    /\ calc.fn = "corr" /\ calc.pc = "in"
    /\ ~NSTooShort(calc.arg.ns) /\ SpawnsRequest(calc.arg.ns[1])
    /\ ~DSTooShort(calc.arg.ds)
    /\ LET uid == NSUid(calc.arg.ns)
           recorded == RecordPending(EmptyTable, uid)
       IN  calc' = [calc EXCEPT !.out = [cmd |-> Command(uid),
                                         recorded |-> recorded,
                                         after |-> DataSourceClear(recorded, DSUid(calc.arg.ds))],
                                !.pc = "done"]
    /\ EngineUnchanged

\* the command for one uid is built
EncodeCommand ==
    /\ calc.fn = "cmd" /\ calc.pc = "in"
    /\ calc' = [calc EXCEPT !.out = Command(calc.arg.u), !.pc = "done"]
    /\ EngineUnchanged

\* one Notification-Source packet is decoded
DecodeEvent ==
    /\ calc.fn = "ns" /\ calc.pc = "in"
    /\ calc' = [calc EXCEPT !.out = NSDecode(calc.arg), !.pc = "done"]
    /\ EngineUnchanged

FnInit ==
    /\ Constructed
    /\ \/ calc \in CmdInputs
       \/ calc \in NsInputs
       \/ calc \in TlvInputs
       \/ calc \in RecsInputs
       \/ calc \in CorrInputs

FnNext ==
    \/ EncodeCommand
    \/ DecodeEvent
    \/ ParseStart
    \/ ParseIter
    \/ Summarise
    \/ Correlate

FnSpec == FnInit /\ [][FnNext]_vars

\* ------------------------------------------------------------- the claims
\* the entries of every uid other than u are the same before and after a step
OthersSame(u) ==
    \A v \in UIDs \ {u} :
        /\ (v \in DOMAIN pending') = (v \in DOMAIN pending)
        /\ v \in DOMAIN pending => pending'[v] = pending[v]

\* requests for u in progress: spawned and not yet run, or awaiting the write
InProgress(u) == tasks[u].spawned + tasks[u].writing

IsRemovedStep(st) == st.op = "ns" /\ ~st.short /\ st.event = 2
IsResponseStep(st) == st.op = "ds" /\ ~st.short

\* C1: when the callbacks for u came in the order Added(u), Removed(u),
\* Data-Source(u) and no further Added(u) followed, the table does not
\* contain u in any state after the late response, however the request task
\* of the Added event interleaves with the callbacks.
C1_TableEmptyAfterLateResponse ==
    \A u \in UIDs : phase[u] = "ARD" => u \notin DOMAIN pending

\* C2: the write attempts for u never exceed the Added events handled for u,
\* and every Added(u) whose request was not yet written leads to a state
\* where its write has been attempted and the table holds an entry for u.
C2_EveryAddedIsRequestedOnce ==
    /\ [](\A u \in UIDs : cpWrites[u] <= nsAdded[u])
    /\ \A u \in UIDs : \A n \in 1..MaxAdded :
          (nsAdded[u] >= n /\ cpWrites[u] < n)
              ~> (cpWrites[u] = n /\ u \in DOMAIN pending)

C2_Witness ==
    \E u \in UIDs : nsAdded[u] = 2 /\ cpWrites[u] = 2 /\ u \in DOMAIN pending

\* C3: a failed write for u leaves the table without u and every other
\* entry as it was; the client, the other tasks and the output are
\* untouched, and while the client is connected the callbacks still run.
C3_WriteFailureRollsBack ==
    /\ [][last'.op = "write_fail" =>
            /\ last'.uid \notin DOMAIN pending'
            /\ OthersSame(last'.uid)
            /\ client' = client
            /\ emitted' = emitted
            /\ lastSummary' = lastSummary
            /\ \A v \in UIDs \ {last'.uid} : tasks'[v] = tasks[v]]_vars
    /\ [](last.op = "write_fail" /\ client = "connected" =>
            /\ ENABLED OnNotificationSource(<<2, 1, 4, 1, 7, 0, 0, 0>>)
            /\ ENABLED OnDataSource(<<7, 0, 0>>))

C3_Witness ==
    /\ last.op = "write_fail"
    /\ last.had
    /\ client = "connected"
    /\ \E v \in UIDs \ {last.uid} : v \in DOMAIN pending

\* C4 as stated: at most one request for u is in progress in every state.
C4_AtMostOneInProgress ==
    \A u \in UIDs : InProgress(u) <= 1

\* C4: every Added(u) starts one request of its own, so the requests for u
\* in progress are the Added(u) events handled whose task has not ended:
\* never more than the Added(u) events handled, the spawned ones exactly
\* those not yet written, and more than one when Added(u) is repeated.
C4_InProgressPerAdded ==
    \A u \in UIDs :
        /\ InProgress(u) <= nsAdded[u]
        /\ tasks[u].spawned = nsAdded[u] - cpWrites[u]
        /\ tasks[u].writing <= cpWrites[u]

C4_Witness ==
    \E u \in UIDs : nsAdded[u] = 2 /\ tasks[u].writing = 2 /\ u \in DOMAIN pending

\* C5: an entry for u whose write was acknowledged leaves the table only in
\* a step that handles a Data-Source response for u or a Removed event for u.
C5_AckedEntryStays ==
    [][\A u \in UIDs :
          (acked[u] /\ u \in DOMAIN pending /\ u \notin DOMAIN pending')
              => (last'.uid = u /\ (IsResponseStep(last') \/ IsRemovedStep(last')))]_vars

\* C6: a Data-Source packet of at least 4 bytes for u prints exactly one
\* summary for u, leaves the table without u whether or not u was in it,
\* writes nothing, spawns nothing and leaves the other entries as they were.
C6_ResponseClearsAndEmits ==
    [][IsResponseStep(last') =>
          /\ last'.uid \notin DOMAIN pending'
          /\ OthersSame(last'.uid)
          /\ emitted' = [emitted EXCEPT ![last'.uid] = @ + 1]
          /\ cpWrites' = cpWrites
          /\ tasks' = tasks]_vars

C6_Witness ==
    /\ IsResponseStep(last)
    /\ last.had
    /\ emitted[last.uid] = 1
    /\ \E v \in UIDs \ {last.uid} : v \in DOMAIN pending

\* C7: a Removed event for u leaves the table without u, prints no summary,
\* writes nothing and spawns nothing; the table is unchanged when u was not
\* in it, and the other entries are as they were.
C7_RemovedClearsOnlyItsUid ==
    [][IsRemovedStep(last') =>
          /\ last'.uid \notin DOMAIN pending'
          /\ OthersSame(last'.uid)
          /\ (last'.uid \notin DOMAIN pending => pending' = pending)
          /\ emitted' = emitted
          /\ lastSummary' = lastSummary
          /\ cpWrites' = cpWrites
          /\ tasks' = tasks]_vars

C7_Witness ==
    /\ IsRemovedStep(last)
    /\ last.had
    /\ \E v \in UIDs \ {last.uid} : v \in DOMAIN pending

\* C8: after the disconnect step the pending table is empty.
C8_DisconnectResetsTable ==
    last.op = "disconnect" => DOMAIN pending = {}

\* C9: a Modified event, or an event of a kind other than 0, 1, 2, spawns no
\* request, writes nothing and leaves the table exactly as it was.
C9_ModifiedAndUnknownDoNothing ==
    [][(last'.op = "ns" /\ ~last'.short /\ last'.event \notin {0, 2}) =>
          /\ pending' = pending
          /\ tasks' = tasks
          /\ cpWrites' = cpWrites
          /\ nsAdded' = nsAdded
          /\ emitted' = emitted]_vars

C9_Witness ==
    /\ last.op = "ns"
    /\ ~last.short
    /\ last.event = 1
    /\ last.had
    /\ InProgress(last.uid) = 0

\* C10: a Notification-Source packet shorter than 8 bytes and a Data-Source
\* packet shorter than 4 bytes change nothing: the table, the tasks, the
\* writes, the output and the client are as before.
C10_ShortPacketsDropped ==
    [][(last'.op \in {"ns", "ds"} /\ last'.short) =>
          /\ pending' = pending
          /\ tasks' = tasks
          /\ cpWrites' = cpWrites
          /\ emitted' = emitted
          /\ lastSummary' = lastSummary
          /\ client' = client]_vars

C10_Witness ==
    /\ last.op = "ns"
    /\ last.short
    /\ DOMAIN pending # {}
    /\ \E u \in UIDs : tasks[u].writing > 0

\* the fixed header of a command and its kind list, read as the wire format
\* lays it out: kinds 1, 2 and 3 are followed by a 16-bit maximum length
RECURSIVE KindList(_)
KindList(bs) ==
    IF Len(bs) = 0 THEN <<>>
    ELSE IF bs[1] \in {1, 2, 3}
    THEN <<<<bs[1], bs[2] + 256 * bs[3]>>>> \o KindList(SubSeq(bs, 4, Len(bs)))
    ELSE <<<<bs[1], -1>>>> \o KindList(Tail(bs))

CommandHeader(cmd) ==
    [command |-> cmd[1],
     uid |-> cmd[2] + 256 * cmd[3] + 65536 * cmd[4] + 16777216 * cmd[5],
     kinds |-> KindList(SubSeq(cmd, 6, Len(cmd)))]

\* C11: the command built for u is the 12 bytes 00, u little-endian, 00,
\* 01 40 00, 03 00 01, and reading its header back gives uid u and the kind
\* list AppIdentifier, Title(64), Message(256).
C11_CommandBytes ==
    (calc.fn = "cmd" /\ calc.pc = "done") =>
        /\ Len(calc.out) = 12
        /\ calc.out = <<0>> \o calc.arg.le \o <<0, 1, 64, 0, 3, 0, 1>>
        /\ CommandHeader(calc.out) =
             [command |-> 0, uid |-> calc.arg.u,
              kinds |-> << <<0, -1>>, <<1, 64>>, <<3, 256>> >>]

C11_Witness ==
    /\ calc.fn = "cmd" /\ calc.pc = "done"
    /\ calc.arg.le = <<255, 1, 2, 127>>

\* C13: a packet shorter than 8 bytes is not decoded; a packet of 8 bytes or
\* more decodes to the kind, flags, category, count of its first four bytes
\* and the little-endian uid of bytes 4..7, whatever follows byte 7 and
\* whatever the kind and category codes are (unknown ones keep their code).
C13_EventDecoding ==
    (calc.fn = "ns" /\ calc.pc = "done") =>
        LET d == calc.arg
            r == calc.out
        IN  IF Len(d) < 8 THEN ~r.ok
            ELSE /\ r.ok
                 /\ r.uid = d[5] + 256 * d[6] + 65536 * d[7] + 16777216 * d[8]
                 /\ r.event_flags = d[2]
                 /\ r.category_count = d[4]
                 /\ r.event_name = (CASE d[1] = 0 -> <<"Added", -1>>
                                      [] d[1] = 1 -> <<"Modified", -1>>
                                      [] d[1] = 2 -> <<"Removed", -1>>
                                      [] OTHER -> <<"Unknown", d[1]>>)
                 /\ (d[3] = 4 => r.category = <<"Social", -1>>)
                 /\ (d[3] = 11 => r.category = <<"Entertainment", -1>>)
                 /\ (d[3] > 11 => r.category = <<"Unknown", d[3]>>)
                 /\ r = NSDecode(SubSeq(d, 1, 8))
                 /\ (d = <<0, 1, 4, 1, 42, 0, 0, 0>> =>
                        r = [ok |-> TRUE, event_name |-> <<"Added", -1>>, event_flags |-> 1,
                             category |-> <<"Social", -1>>, category_count |-> 1, uid |-> 42])

C13_Witness ==
    /\ calc.fn = "ns" /\ calc.pc = "done"
    /\ calc.arg = <<9, 128, 200, 1, 255, 255, 255, 127, 0, 9>>
    /\ calc.out.uid = 2147483647

\* ---- TLV buffers, described without the loop ----

\* the declared value length of the record whose header starts at offset p
LenAt(data, p) == data[p + 2] + 256 * data[p + 3]

\* a whole record lies in the buffer from offset p
CompleteAt(data, p) == p + 3 <= Len(data) /\ p + 3 + LenAt(data, p) <= Len(data)

\* the offsets at which records start: 0, and the end of every complete
\* record that starts at such an offset
RecordStarts(data) ==
    LET n == Len(data)
        starts[o \in 0..n] ==
            \/ o = 0
            \/ \E p \in 0..(o - 1) :
                 starts[p] /\ CompleteAt(data, p) /\ p + 3 + LenAt(data, p) = o
    IN  { o \in 0..n : starts[o] }

\* the complete records of the longest prefix made of complete records
CompleteRecords(data) == { p \in RecordStarts(data) : CompleteAt(data, p) }

\* the mapping of that prefix: each kind to the value of its last record
PrefixMapping(data) ==
    LET recs == CompleteRecords(data)
        lastOf(k) == CHOOSE p \in recs :
                        /\ data[p + 1] = k
                        /\ \A q \in recs : data[q + 1] = k => q <= p
    IN  [k \in { data[p + 1] : p \in recs } |->
            SubSeq(data, lastOf(k) + 4, lastOf(k) + 3 + LenAt(data, lastOf(k)))]

\* where reading stops: at the first offset with fewer than 3 bytes left, or
\* just behind the header whose length overruns the buffer
StopIndex(data) ==
    LET stop == CHOOSE o \in RecordStarts(data) : ~CompleteAt(data, o)
    IN  IF stop + 3 <= Len(data) THEN stop + 3 ELSE stop

Hello == <<72, 101, 108, 108, 111>>

\* C12: the TLV parser returns exactly the mapping of the longest prefix of
\* complete records (a later record of a kind replaces an earlier one) and
\* stops where fewer than 3 bytes remain or a declared length overruns the
\* buffer; 01 05 00 "Hello" 03 03 00 "Hi!" gives Title and Message, and the
\* same buffer without its last byte gives Title only
C12_LenientParse ==
    (calc.fn = "tlv" /\ calc.pc = "done") =>
        /\ calc.out.attrs = PrefixMapping(calc.arg)
        /\ parse_tlv_attributes(calc.arg) = PrefixMapping(calc.arg)
        /\ calc.out.i = StopIndex(calc.arg)
        /\ calc.arg = TlvHello =>
             calc.out.attrs = (NA_TITLE :> Hello) @@ (NA_MESSAGE :> <<72, 105, 33>>)
        /\ calc.arg = SubSeq(TlvHello, 1, 13) =>
             calc.out.attrs = (NA_TITLE :> Hello)

\* a buffer whose second record overruns was parsed: the first record is
\* kept, reading stopped behind the second header
C12_Witness ==
    /\ calc.fn = "tlv" /\ calc.pc = "done"
    /\ calc.arg = <<1, 0, 0, 3, 1, 0>>
    /\ calc.out.attrs = (1 :> <<>>)
    /\ calc.out.i = 6

\* ---- record lists ----

\* the kinds of a record list, in order
KindsOf(recs) == [j \in DOMAIN recs |-> recs[j][1]]

DistinctKinds(recs) ==
    \A a, b \in DOMAIN recs : a # b => recs[a][1] # recs[b][1]

\* the orders of n records
Orders(n) == { f \in [1..n -> 1..n] : \A a, b \in 1..n : a # b => f[a] # f[b] }

\* C14: for well-formed records of pairwise distinct kinds the parsed mapping,
\* and with it the summary, is the same in whatever order the records
\* arrive: every kind maps to the value of its record
C14_OrderIndependent ==
    (calc.fn = "recs" /\ calc.pc = "done" /\ calc.arg.cut = 0
        /\ DistinctKinds(calc.arg.recs)) =>
        LET recs == calc.arg.recs
        IN  /\ DOMAIN calc.out.attrs = { recs[j][1] : j \in DOMAIN recs }
            /\ \A j \in DOMAIN recs : calc.out.attrs[recs[j][1]] = recs[j][2]
            /\ \A f \in Orders(Len(recs)) :
                 LET other == EncodeTlv([j \in DOMAIN recs |-> recs[f[j]]])
                 IN  /\ parse_tlv_attributes(other) = calc.out.attrs
                     /\ Summary(other) = calc.out.summary

\* three records of distinct kinds were parsed, message first and the
\* identifier last
C14_Witness ==
    /\ calc.fn = "recs" /\ calc.pc = "done" /\ calc.arg.cut = 0
    /\ KindsOf(calc.arg.recs) = <<3, 1, 0>>
    /\ DOMAIN calc.out.attrs = {0, 1, 3}

\* the records that lie whole in the payload: cutting one byte loses the
\* last record
WholeRecords(arg) ==
    IF arg.cut = 0 \/ Len(arg.recs) = 0 THEN arg.recs
    ELSE SubSeq(arg.recs, 1, Len(arg.recs) - 1)

\* the value of the last record of a kind, empty when there is none
LastValue(recs, kind) ==
    LET at == { j \in DOMAIN recs : recs[j][1] = kind }
    IN  IF at = {} THEN <<>>
        ELSE recs[CHOOSE j \in at : \A m \in at : m <= j][2]

\* the text shown for a value: undecodable bytes dropped, surrounding NUL,
\* newline, carriage return and space removed
Shown(value) ==
    CASE value = <<>> -> <<>>
      [] value = <<32, 72, 0>> -> <<72>>
      [] value = <<255, 66>> -> <<66>>

\* C15: every payload gets a summary; its three fields are the text of the
\* AppIdentifier (0), Title (1) and Message (3) attributes, empty where the
\* attribute is missing, and no other attribute changes it
C15_SummaryFields ==
    (calc.fn = "recs" /\ calc.pc = "done") =>
        LET recs == WholeRecords(calc.arg)
        IN  /\ DOMAIN calc.out.summary = {"app_id", "title", "message"}
            /\ calc.out.summary.app_id = Shown(LastValue(recs, NA_APP_IDENTIFIER))
            /\ calc.out.summary.title = Shown(LastValue(recs, NA_TITLE))
            /\ calc.out.summary.message = Shown(LastValue(recs, NA_MESSAGE))
            /\ calc.out.summary =
                 Summary(EncodeTlv(SelectSeq(recs,
                    LAMBDA r : r[1] \in {NA_APP_IDENTIFIER, NA_TITLE, NA_MESSAGE})))

\* a payload with a Subtitle, a padded Title and a cut Message was
\* summarised: the title is trimmed, the other two fields are empty
C15_Witness ==
    /\ calc.fn = "recs" /\ calc.pc = "done" /\ calc.arg.cut = 1
    /\ calc.arg.recs = << <<2, <<255, 66>> >>, <<1, <<32, 72, 0>> >>, <<3, <<255, 66>> >> >>
    /\ calc.out.summary = [app_id |-> <<>>, title |-> <<72>>, message |-> <<>>]

\* C20: every run of the loop body moves the read index forward by at least
\* 3, the index never passes the end of the buffer, the body runs at most
\* Len(data) \div 3 times, and every test of the loop condition either runs
\* the body or leaves the loop: parsing ends
C20_ParserTerminates ==
    [][ (calc.fn = "tlv" /\ calc.pc = "loop") =>
          /\ calc'.pc = "done" \/ calc'.out.n = calc.out.n + 1
          /\ calc'.out.n = calc.out.n + 1 => calc'.out.i >= calc.out.i + 3
          /\ calc'.out.i >= calc.out.i
          /\ calc'.out.i <= Len(calc.arg)
          /\ calc'.out.n <= Len(calc.arg) \div 3 ]_vars

\* a buffer of two empty records was parsed in two runs of the body
C20_Witness ==
    /\ calc.fn = "tlv" /\ calc.pc = "done"
    /\ calc.arg = <<0, 0, 0, 1, 0, 0>>
    /\ calc.out.n = 2 /\ calc.out.i = 6

\* C16: the request task records the entry for u in the step that hands the
\* command to the transport; a Data-Source response for u that arrives while
\* that write is in progress finds the entry and clears it; the completion of
\* the write leaves the table as it is, so after it the table does not
\* contain u
C16_RecordBeforeWrite ==
    /\ [][ /\ last'.op = "task_record" =>
                /\ last'.uid \in DOMAIN pending'
                /\ cpWrites'[last'.uid] = cpWrites[last'.uid] + 1
                /\ tasks'[last'.uid].writing = tasks[last'.uid].writing + 1
           /\ (IsResponseStep(last') /\ owner[last'.uid]) =>
                /\ last'.had
                /\ last'.uid \notin DOMAIN pending'
           /\ last'.op = "write_ok" => pending' = pending ]_vars
    /\ [](last.op = "write_ok" /\ ~last.had => last.uid \notin DOMAIN pending)

\* one Added(u), its write, the response during the write, then the
\* acknowledgement: the table is without u
C16_Witness ==
    /\ last.op = "write_ok" /\ ~last.had
    /\ nsAdded[last.uid] = 1 /\ cpWrites[last.uid] = 1 /\ emitted[last.uid] = 1
    /\ InProgress(last.uid) = 0
    /\ last.uid \notin DOMAIN pending

\* C17: a step taken for u (an event or response carrying u, a step of a
\* request task of u) neither adds, removes nor changes the entry of any
\* other uid
C17_UidsDoNotInterfere ==
    [][\A u \in UIDs : last'.uid = u => OthersSame(u)]_vars

\* a write for u failed while v was recorded and its write in progress: the
\* entry of v is still there
C17_Witness ==
    /\ last.op = "write_fail" /\ last.had
    /\ \E v \in UIDs \ {last.uid} :
         v \in DOMAIN pending /\ tasks[v].writing > 0 /\ owner[v]

\* C18: every key k of the table maps to an entry with uid k that expects
\* notification_attributes, and an Added event for k was handled before; no
\* Notification-Source or Data-Source callback creates or changes an entry
C18_TableInvariant ==
    /\ [](\A k \in DOMAIN pending :
            /\ pending[k].uid = k
            /\ pending[k].expecting = "notification_attributes"
            /\ nsAdded[k] >= 1)
    /\ [][last'.op \in {"ns", "ds"} =>
            \A k \in DOMAIN pending' :
                k \in DOMAIN pending /\ pending'[k] = pending[k]]_vars

\* both uids are in the table after a Modified event for one of them
C18_Witness ==
    /\ DOMAIN pending = UIDs
    /\ last.op = "ns" /\ last.event = EVENT_MODIFIED /\ last.had

\* C19: bytes 1..4 of the command are bytes 4..7 of the Added packet, the
\* request records one entry, and the Data-Source packet clears it exactly
\* when its first 4 bytes are those bytes
C19_UidCorrelation ==
    (calc.fn = "corr" /\ calc.pc = "done") =>
        LET key == SubSeq(calc.arg.ns, 5, 8)
        IN  /\ SubSeq(calc.out.cmd, 2, 5) = key
            /\ Cardinality(DOMAIN calc.out.recorded) = 1
            /\ (DOMAIN calc.out.after = {}) <=> (SubSeq(calc.arg.ds, 1, 4) = key)

\* a response whose UID field differs from the event's in the third byte
\* only left the entry in place
C19_Witness ==
    /\ calc.fn = "corr" /\ calc.pc = "done"
    /\ SubSeq(calc.arg.ns, 5, 8) = <<7, 0, 0, 0>>
    /\ SubSeq(calc.arg.ds, 1, 4) = <<7, 0, 1, 0>>
    /\ DOMAIN calc.out.after = {7}

====
